---- MODULE Spec2Model ----
(***************************************************************************)
(* A model of scripts/follow_manager.py: one run of main(), with the       *)
(* GitHub API as the environment.  Every HTTP response, the clock and the  *)
(* iteration order of Python sets are chosen nondeterministically.         *)
(***************************************************************************)
EXTENDS Integers, Sequences, FiniteSets

VARIABLES
    pc,            \* position of main() (and of the method it is inside)
    token,         \* os.getenv("GITHUB_TOKEN"): <<>> is None, <<s>> the string s
    mode,          \* args.mode
    max_follows,   \* args.max_follows
    max_unfollows, \* args.max_unfollows
    rl,            \* frame of check_rate_limit: <<>> or <<[status, remaining, reset, now, slept]>>
    gp,            \* frame of get_paginated: <<>> or <<[url, users, page, reqs]>>
    followers,     \* main's followers
    following,     \* main's following
    to_follow,     \* main's to_follow
    to_unfollow,   \* main's to_unfollow
    idx,           \* position of the running for loop in its list (1-based)
    calls,         \* PUT / DELETE calls issued and pacing sleeps taken, in order
    report,        \* what the dry-run branch printed: <<>> or <<to_follow, to_unfollow>>
    requested,     \* the endpoints requested so far
    rateFailed     \* history: the /rate_limit response was non-2xx or malformed

vars == <<pc, token, mode, max_follows, max_unfollows, rl, gp, followers, following,
          to_follow, to_unfollow, idx, calls, report, requested, rateFailed>>

----------------------------------------------------------------------------
(* Bounds of the model *)

MaxCap == 2
NegCap == 1
MaxPages == 2
MaxTime == 10

(* Program constants *)

DefaultMax == 5
RateThreshold == 5
StatusOK == 200
StatusNoContent == 204

----------------------------------------------------------------------------
(* Input domains *)

Users == {"alice", "bob", "carol"}

\* --mode: <<>> stands for the option not being given
ModeArgs == {<<>>, <<"dry-run">>, <<"execute">>}

\* --max-follows / --max-unfollows: <<>> stands for the option not being given
CapArgs == {<<>>} \cup {<<n>> : n \in (0 - NegCap) .. MaxCap}

\* GITHUB_TOKEN: unset, set to the empty string, set to a token
Tokens == {<<>>, <<"">>, <<"ghp_token">>}

Remainings == {0 - 1, 0, 2, 4, 5, 6}
Times == 0 .. MaxTime
RateStatuses == {200, 500}
\* The body of the /rate_limit response: <<>> is a body that is not JSON or has
\* no rate.remaining / rate.reset
RateBodies == {<<>>} \cup {<<[remaining |-> r, reset |-> t]>> : r \in Remainings, t \in Times}

PageStatuses == {200, 500}
MutationStatuses == {204, 404}

Max(a, b) == IF a >= b THEN a ELSE b
Min(a, b) == IF a <= b THEN a ELSE b

----------------------------------------------------------------------------
(* argparse *)

ParseMode(a) == IF a = <<>> THEN "dry-run" ELSE a[1]

ParseCap(a) == IF a = <<>> THEN DefaultMax ELSE a[1]

Init ==
    /\ pc = "start"
    /\ token \in Tokens
    /\ \E a \in ModeArgs : mode = ParseMode(a)
    /\ \E a \in CapArgs : max_follows = ParseCap(a)
    /\ \E a \in CapArgs : max_unfollows = ParseCap(a)
    /\ rl = <<>>
    /\ gp = <<>>
    /\ followers = {}
    /\ following = {}
    /\ to_follow = <<>>
    /\ to_unfollow = <<>>
    /\ idx = 0
    /\ calls = <<>>
    /\ report = <<>>
    /\ requested = {}
    /\ rateFailed = FALSE

----------------------------------------------------------------------------
(* main, lines 79-84 *)

\* a token check that tests for None only
TokenMissingNoneOnly(t) == t = <<>>

TokenMissing(t) == t = <<>> \/ t = <<"">>

CheckToken ==
    /\ pc = "start"
    /\ pc' = IF TokenMissing(token) THEN "no_token" ELSE "check_rate_limit"
    /\ UNCHANGED <<token, mode, max_follows, max_unfollows, rl, gp, followers, following,
                   to_follow, to_unfollow, idx, calls, report, requested, rateFailed>>

----------------------------------------------------------------------------
(* check_rate_limit *)

Is2xx(s) == s >= 200 /\ s < 300

\* the wait without the max(..., 0)
WaitTimeUnclamped(reset, now) == reset - now

WaitTime(reset, now) == Max(reset - now, 0)

\* lines 21-24: the request, r.json() and the two subscripts; the status is never read
RateLimitGet ==
    /\ pc = "check_rate_limit"
    /\ \E s \in RateStatuses, b \in RateBodies :
        /\ requested' = requested \cup {"rate_limit"}
        /\ rateFailed' = (~Is2xx(s) \/ b = <<>>)
        /\ IF b = <<>>
           THEN /\ pc' = "raised"
                /\ rl' = rl
           ELSE /\ pc' = "rl_guard"
                /\ rl' = <<[status |-> s, remaining |-> b[1].remaining,
                            reset |-> b[1].reset, now |-> 0, slept |-> <<>>]>>
    /\ UNCHANGED <<token, mode, max_follows, max_unfollows, gp, followers, following,
                   to_follow, to_unfollow, idx, calls, report>>

\* lines 26-31
RateLimitGuard ==
    /\ pc = "rl_guard"
    /\ \E now \in Times :
        rl' = <<[rl[1] EXCEPT !.now = now,
                              !.slept = IF rl[1].remaining < RateThreshold
                                        THEN <<WaitTime(rl[1].reset, now)>>
                                        ELSE <<>>]>>
    /\ pc' = "rl_return"
    /\ UNCHANGED <<token, mode, max_follows, max_unfollows, gp, followers, following,
                   to_follow, to_unfollow, idx, calls, report, requested, rateFailed>>

\* the return to main, line 86
RateLimitReturn ==
    /\ pc = "rl_return"
    /\ rl' = <<>>
    /\ pc' = "get_followers"
    /\ UNCHANGED <<token, mode, max_follows, max_unfollows, gp, followers, following,
                   to_follow, to_unfollow, idx, calls, report, requested, rateFailed>>

----------------------------------------------------------------------------
(* get_paginated *)

\* What the API may answer to the request of a page: a status and, with 200, the
\* logins of the entries of the page.  Pages after MaxPages hold no entry.
PageResponses(page) ==
    {[status |-> s, data |-> {}] : s \in PageStatuses}
    \cup (IF page <= MaxPages
          THEN {[status |-> StatusOK, data |-> d] : d \in (SUBSET Users) \ {{}}}
          ELSE {})

Endpoint(url) == IF url = "/user/followers" THEN "followers" ELSE "following"

\* lines 55-56 / 59-60 and 34-35: the call from main and the locals of get_paginated
GetPaginatedCall ==
    /\ pc \in {"get_followers", "get_following"}
    /\ gp' = <<[url |-> IF pc = "get_followers" THEN "/user/followers" ELSE "/user/following",
                users |-> {}, page |-> 1, reqs |-> <<>>]>>
    /\ pc' = "gp_loop"
    /\ UNCHANGED <<token, mode, max_follows, max_unfollows, rl, followers, following,
                   to_follow, to_unfollow, idx, calls, report, requested, rateFailed>>

\* line 39
PageFailed(status) == status # StatusOK

\* line 44
PageEmpty(data) == data = {}

\* a page counter that steps by two
NextPageSkipping(page) == page + 2

\* line 50
NextPage(page) == page + 1

\* an error path that drops what was accumulated
UsersOnErrorDropped(users) == {}

\* what the loop leaves in users when it breaks on an error, lines 39-41
UsersOnError(users) == users

\* lines 38-50: one iteration of the while loop
GetPage ==
    /\ pc = "gp_loop"
    /\ \E r \in PageResponses(gp[1].page) :
        LET f == gp[1]
            req == [page |-> f.page, status |-> r.status, data |-> r.data]
        IN  /\ requested' = requested \cup {Endpoint(f.url)}
            /\ IF PageFailed(r.status)
               THEN /\ gp' = <<[f EXCEPT !.reqs = Append(@, req),
                                         !.users = UsersOnError(@)]>>
                    /\ pc' = "gp_return"
               ELSE IF PageEmpty(r.data)
               THEN /\ gp' = <<[f EXCEPT !.reqs = Append(@, req)]>>
                    /\ pc' = "gp_return"
               ELSE /\ gp' = <<[f EXCEPT !.reqs = Append(@, req),
                                         !.users = @ \cup r.data,
                                         !.page = NextPage(@)]>>
                    /\ pc' = "gp_loop"
    /\ UNCHANGED <<token, mode, max_follows, max_unfollows, rl, followers, following,
                   to_follow, to_unfollow, idx, calls, report, rateFailed>>

\* a main that skips the second fetch
AfterFetchSkipping(url) == "reconcile"

\* where main goes on after a fetch, lines 88-91
AfterFetch(url) == IF url = "/user/followers" THEN "get_following" ELSE "reconcile"

\* line 52 and the assignment in main, line 88 / 89
GetPaginatedReturn ==
    /\ pc = "gp_return"
    /\ IF gp[1].url = "/user/followers"
       THEN followers' = gp[1].users /\ following' = following
       ELSE following' = gp[1].users /\ followers' = followers
    /\ pc' = AfterFetch(gp[1].url)
    /\ gp' = <<>>
    /\ UNCHANGED <<token, mode, max_follows, max_unfollows, rl,
                   to_follow, to_unfollow, idx, calls, report, requested, rateFailed>>

----------------------------------------------------------------------------
(* main, lines 91-100 *)

\* list(s): the elements of s, each once, in an order the interpreter chooses
Lists(S) ==
    {s \in [1 .. Cardinality(S) -> S] : \A i, j \in 1 .. Cardinality(S) : i # j => s[i] # s[j]}

\* a slice that stops one element early
SliceOffByOne(s, n) == SubSeq(s, 1, Min(n, Len(s)) - 1)

\* s[:n], with Python's meaning of a negative n
Slice(s, n) ==
    IF n >= 0
    THEN SubSeq(s, 1, Min(n, Len(s)))
    ELSE SubSeq(s, 1, Max(Len(s) + n, 0))

\* lines 91-95
Reconcile ==
    /\ pc = "reconcile"
    /\ \E s \in Lists(followers \ following) : to_follow' = Slice(s, max_follows)
    /\ \E s \in Lists(following \ followers) : to_unfollow' = Slice(s, max_unfollows)
    /\ pc' = "mode_check"
    /\ UNCHANGED <<token, mode, max_follows, max_unfollows, rl, gp, followers, following,
                   idx, calls, report, requested, rateFailed>>

\* a mode test that misspells the choice
DryRunBranchMisspelled(m) == m = "dry_run"

\* line 97
DryRunBranch(m) == m = "dry-run"

ModeCheck ==
    /\ pc = "mode_check"
    /\ IF DryRunBranch(mode)
       THEN pc' = "dry_report" /\ idx' = idx
       ELSE pc' = "follow_loop" /\ idx' = 1
    /\ UNCHANGED <<token, mode, max_follows, max_unfollows, rl, gp, followers, following,
                   to_follow, to_unfollow, calls, report, requested, rateFailed>>

\* lines 98-100
DryRunReport ==
    /\ pc = "dry_report"
    /\ report' = <<to_follow, to_unfollow>>
    /\ pc' = "done"
    /\ UNCHANGED <<token, mode, max_follows, max_unfollows, rl, gp, followers, following,
                   to_follow, to_unfollow, idx, calls, requested, rateFailed>>

----------------------------------------------------------------------------
(* main, lines 102-112 *)

\* lines 64 / 68
Succeeded(status) == status = StatusNoContent

\* a loop that stays on an item until its call succeeds
NextItemRetrying(i, ok) == IF ok THEN i + 1 ELSE i

\* the for loops go on to the next item whatever follow_user / unfollow_user returned
NextItem(i, ok) == i + 1

\* lines 102-106: one iteration, the call and the pacing sleep
FollowUser ==
    /\ pc = "follow_loop"
    /\ idx <= Len(to_follow)
    /\ \E s \in MutationStatuses :
        /\ calls' = calls \o <<[op |-> "PUT", user |-> to_follow[idx], status |-> s],
                               [op |-> "sleep", user |-> "", status |-> 0]>>
        /\ idx' = NextItem(idx, Succeeded(s))
    /\ requested' = requested \cup {"put"}
    /\ UNCHANGED <<pc, token, mode, max_follows, max_unfollows, rl, gp, followers, following,
                   to_follow, to_unfollow, report, rateFailed>>

\* the first loop is exhausted, line 102 -> 108
FollowLoopEnd ==
    /\ pc = "follow_loop"
    /\ idx > Len(to_follow)
    /\ pc' = "unfollow_loop"
    /\ idx' = 1
    /\ UNCHANGED <<token, mode, max_follows, max_unfollows, rl, gp, followers, following,
                   to_follow, to_unfollow, calls, report, requested, rateFailed>>

\* lines 108-112: one iteration
UnfollowUser ==
    /\ pc = "unfollow_loop"
    /\ idx <= Len(to_unfollow)
    /\ \E s \in MutationStatuses :
        /\ calls' = calls \o <<[op |-> "DELETE", user |-> to_unfollow[idx], status |-> s],
                               [op |-> "sleep", user |-> "", status |-> 0]>>
        /\ idx' = NextItem(idx, Succeeded(s))
    /\ requested' = requested \cup {"delete"}
    /\ UNCHANGED <<pc, token, mode, max_follows, max_unfollows, rl, gp, followers, following,
                   to_follow, to_unfollow, report, rateFailed>>

\* the second loop is exhausted: main returns
UnfollowLoopEnd ==
    /\ pc = "unfollow_loop"
    /\ idx > Len(to_unfollow)
    /\ pc' = "done"
    /\ UNCHANGED <<token, mode, max_follows, max_unfollows, rl, gp, followers, following,
                   to_follow, to_unfollow, idx, calls, report, requested, rateFailed>>

----------------------------------------------------------------------------
Next ==
    \/ CheckToken
    \/ RateLimitGet
    \/ RateLimitGuard
    \/ RateLimitReturn
    \/ GetPaginatedCall
    \/ GetPage
    \/ GetPaginatedReturn
    \/ Reconcile
    \/ ModeCheck
    \/ DryRunReport
    \/ FollowUser
    \/ FollowLoopEnd
    \/ UnfollowUser
    \/ UnfollowLoopEnd

Spec == Init /\ [][Next]_vars

----------------------------------------------------------------------------
(* Properties *)

\* main is past lines 91-92
Reconciled == pc \in {"mode_check", "dry_report", "follow_loop", "unfollow_loop", "done"}

Range(s) == {s[k] : k \in 1 .. Len(s)}

Distinct(s) == \A i, j \in 1 .. Len(s) : i # j => s[i] # s[j]

\* the PUT and DELETE calls among calls, in order
Mutations == SelectSeq(calls, LAMBDA c : c.op \in {"PUT", "DELETE"})

\* the logins of the pages 1 .. n of a fetch
Logins(reqs, n) == UNION {reqs[k].data : k \in 1 .. n}

\* C1: in dry-run mode no PUT and no DELETE call is ever issued, whatever was
\* fetched and whatever the caps; the run ends having printed the two lists.
C1_DryRunNoMutation ==
    mode = "dry-run" =>
        /\ calls = <<>>
        /\ "put" \notin requested
        /\ "delete" \notin requested
        /\ pc \notin {"follow_loop", "unfollow_loop"}
        /\ (pc = "done" => report = <<to_follow, to_unfollow>>)

C1_Witness ==
    /\ mode = "dry-run"
    /\ pc = "done"
    /\ to_follow # <<>>
    /\ to_unfollow # <<>>

\* C2: for every integer cap the command line accepts, the candidate lists are
\* within the difference sets and no longer than the caps.
C2_ReconcileBounds ==
    Reconciled =>
        /\ Range(to_follow) \subseteq followers \ following
        /\ Range(to_unfollow) \subseteq following \ followers
        /\ Len(to_follow) <= max_follows
        /\ Len(to_unfollow) <= max_unfollows

\* C3: get_paginated requests the pages 1, 2, 3, ... in order, each once, requests
\* nothing after an empty page, and at the first empty page returns the logins of
\* the pages before it.
C3_Pagination ==
    gp # <<>> =>
        LET reqs == gp[1].reqs
            n == Len(reqs)
        IN  /\ \A k \in 1 .. n : reqs[k].page = k
            /\ \A k \in 1 .. n - 1 : reqs[k].status = 200 /\ reqs[k].data # {}
            /\ (n > 0 /\ reqs[n].status = 200 /\ reqs[n].data = {}) =>
                   /\ pc = "gp_return"
                   /\ gp[1].users = Logins(reqs, n - 1)

C3_Witness ==
    /\ pc = "gp_return"
    /\ Len(gp[1].reqs) = 3
    /\ gp[1].reqs[1].data = {"alice", "bob"}
    /\ gp[1].reqs[2].data = {"carol"}
    /\ gp[1].reqs[3] = [page |-> 3, status |-> 200, data |-> {}]
    /\ gp[1].users = {"alice", "bob", "carol"}

\* the page request that ended the running fetch was answered with an error
FetchFailed ==
    /\ gp # <<>>
    /\ Len(gp[1].reqs) > 0
    /\ gp[1].reqs[Len(gp[1].reqs)].status # 200

\* C4: a page answered with an error ends the fetch without raising: no further
\* page is requested, the logins of the earlier pages are returned, and main goes
\* on to the next fetch or to the reconciliation with them.
C4_FetchErrorIsPartial ==
    /\ [](FetchFailed =>
            /\ pc = "gp_return"
            /\ gp[1].users = Logins(gp[1].reqs, Len(gp[1].reqs) - 1))
    /\ [][FetchFailed =>
            /\ gp' = <<>>
            /\ requested' = requested
            /\ IF gp[1].url = "/user/followers"
               THEN pc' = "get_following" /\ followers' = gp[1].users
               ELSE pc' = "reconcile" /\ following' = gp[1].users]_vars

C4_Witness ==
    /\ pc = "gp_return"
    /\ gp[1].reqs = <<[page |-> 1, status |-> 200, data |-> {"alice"}],
                      [page |-> 2, status |-> 500, data |-> {}]>>
    /\ gp[1].users = {"alice"}

\* C5: once check_rate_limit is over, a /rate_limit response that was non-2xx or
\* malformed has aborted the run: no page was fetched, no follow or unfollow issued.
C5_RateFailureAborts ==
    (rateFailed /\ pc \notin {"rl_guard", "rl_return"}) =>
        /\ pc = "raised"
        /\ requested \subseteq {"rate_limit"}
        /\ calls = <<>>

\* C6: check_rate_limit sleeps max(reset - now, 0) seconds when remaining < 5,
\* never a negative time, and does not sleep when remaining >= 5.
C6_RateLimitSleep ==
    pc = "rl_return" =>
        LET f == rl[1]
        IN  IF f.remaining < 5
            THEN /\ Len(f.slept) = 1
                 /\ f.slept[1] >= 0
                 /\ f.slept[1] = (IF f.reset > f.now THEN f.reset - f.now ELSE 0)
            ELSE f.slept = <<>>

C6_Witness ==
    /\ pc = "rl_return"
    /\ rl[1].remaining = 2
    /\ rl[1].reset = rl[1].now + 10
    /\ rl[1].slept = <<10>>

\* C7: in execute mode the calls are, in order, one PUT per identifier of
\* to_follow then one DELETE per identifier of to_unfollow, each followed by one
\* pacing sleep, whatever the statuses; at the end every identifier had its call.
C7_ExecuteCallsAll ==
    mode = "execute" =>
        LET expected == to_follow \o to_unfollow
            n == Len(calls) \div 2
        IN  /\ Len(calls) = 2 * n
            /\ n <= Len(expected)
            /\ \A k \in 1 .. n :
                /\ calls[2 * k - 1].op = (IF k <= Len(to_follow) THEN "PUT" ELSE "DELETE")
                /\ calls[2 * k - 1].user = expected[k]
                /\ calls[2 * k].op = "sleep"
            /\ pc = "done" =>
                /\ \A u \in Range(to_follow) :
                    Cardinality({k \in 1 .. Len(calls) :
                        calls[k].op = "PUT" /\ calls[k].user = u}) = 1
                /\ \A u \in Range(to_unfollow) :
                    Cardinality({k \in 1 .. Len(calls) :
                        calls[k].op = "DELETE" /\ calls[k].user = u}) = 1
                /\ Len(Mutations) = Len(expected)

C7_Witness ==
    /\ mode = "execute"
    /\ pc = "done"
    /\ Len(to_follow) = 2
    /\ Len(to_unfollow) = 1
    /\ calls[1].status = 404
    /\ calls[3].status = 204
    /\ calls[5].status = 404

\* C8: without a token, or with an empty one, the run ends at the error report
\* and no endpoint is ever requested, in either mode.
C8_NoTokenNoNetwork ==
    (token = <<>> \/ token = <<"">>) =>
        /\ pc \in {"start", "no_token"}
        /\ requested = {}
        /\ calls = <<>>

C8_Witness ==
    /\ token = <<"">>
    /\ mode = "execute"
    /\ pc = "no_token"

\* the state of the run in the terms of the state machine
Phase ==
    CASE pc \in {"start", "check_rate_limit", "rl_guard", "rl_return"} -> "Idle"
      [] pc \in {"get_followers", "get_following", "gp_loop", "gp_return"} -> "RateChecked"
      [] pc = "reconcile" -> "Fetched"
      [] pc = "mode_check" -> "Reconciled"
      [] pc = "dry_report" -> "DryReport"
      [] pc \in {"follow_loop", "unfollow_loop"} -> "Mutating"
      [] pc = "done" -> "Done"
      [] pc \in {"no_token", "raised"} -> "Aborted"

PhaseOrder ==
    {<<"Idle", "RateChecked">>, <<"RateChecked", "Fetched">>, <<"Fetched", "Reconciled">>,
     <<"Reconciled", "DryReport">>, <<"Reconciled", "Mutating">>,
     <<"DryReport", "Done">>, <<"Mutating", "Done">>}

\* C9: a run goes Idle, RateChecked, Fetched, Reconciled, DryReport or Mutating,
\* Done, one state at a time (a run that aborts leaves from Idle and never reaches
\* Done): the rate-limit check is over before any page is requested, followers are
\* fetched before following and both before the lists are computed, the lists are
\* computed before any follow or unfollow call, and Mutating needs mode = execute.
C9_StateMachine ==
    /\ [][Phase' = Phase \/ <<Phase, Phase'>> \in PhaseOrder
            \/ (Phase = "Idle" /\ Phase' = "Aborted")]_vars
    /\ []((requested \cap {"followers", "following"} # {}) =>
            ("rate_limit" \in requested /\ Phase \notin {"Idle", "Aborted"}))
    /\ []("following" \in requested => ("followers" \in requested /\ pc # "get_following"))
    /\ [](Phase \in {"Fetched", "Reconciled", "DryReport", "Mutating", "Done"} =>
            {"rate_limit", "followers", "following"} \subseteq requested)
    /\ []((requested \cap {"put", "delete"} # {} \/ calls # <<>>) =>
            Phase \in {"Mutating", "Done"})
    /\ [](Phase = "Mutating" => mode = "execute")
    /\ []((to_follow # <<>> \/ to_unfollow # <<>>) => Reconciled)

C9_Witness ==
    /\ pc = "done"
    /\ mode = "execute"
    /\ Len(Mutations) = 3

\* C10: with caps >= 0 the lists hold min(|F \ G|, maxFollow) and
\* min(|G \ F|, maxUnfollow) distinct identifiers, the whole difference set when
\* the cap allows it, and an execute run issues one call per listed identifier.
C10_TruncationExact ==
    (Reconciled /\ max_follows >= 0 /\ max_unfollows >= 0) =>
        LET df == followers \ following
            du == following \ followers
        IN  /\ Len(to_follow) = Min(Cardinality(df), max_follows)
            /\ Len(to_unfollow) = Min(Cardinality(du), max_unfollows)
            /\ Distinct(to_follow)
            /\ Distinct(to_unfollow)
            /\ (max_follows >= Cardinality(df) => Range(to_follow) = df)
            /\ (max_unfollows >= Cardinality(du) => Range(to_unfollow) = du)
            /\ (pc = "done" /\ mode = "execute") =>
                /\ Len(Mutations) = Len(to_follow) + Len(to_unfollow)
                /\ Len(Mutations) <= max_follows + max_unfollows

C10_Witness ==
    /\ pc = "done"
    /\ mode = "execute"
    /\ max_follows = 1
    /\ max_unfollows = 2
    /\ Cardinality(followers \ following) = 2
    /\ Cardinality(following \ followers) = 1
    /\ Len(Mutations) = 2
====
